---- MODULE Spec2Model ----
(***************************************************************************)
(* The attribute collection of a DOM element (impl.Attributes, impl.Attr): *)
(* the qname -> Attr map, the ns|lname -> Attr map, the keys array and the *)
(* Attr.value setter with its onchange hook and mutation events.           *)
(***************************************************************************)
EXTENDS Integers, Sequences, FiniteSets, TLC

VARIABLES
    attrs,          \* the live Attr objects, by object identity
    byQName,        \* Attributes.byQName: qname -> Attr or array of Attr
    byNSAndLName,   \* Attributes.byNSAndLName: "ns|lname" -> Attr, in insertion order
    keys,           \* Attributes.keys
    length,         \* Attributes.length
    isHTML,         \* element.isHTML
    rooted,         \* element.rooted
    calls,          \* hook and document calls made by the last operation, in order
    last,           \* the last operation called, its arguments and its outcome
    prototypeAttrDecls  \* c.prototype._attrDecls of each element class c

vars == <<attrs, byQName, byNSAndLName, keys, length, isHTML, rooted, calls, last,
          prototypeAttrDecls>>

\* ------------------------------------------------------------------ bounds

\* How many Attr objects can be alive at once.
MaxAttrs == 3

AttrIds == 1..MaxAttrs

\* ------------------------------------------------------------- JS values

Undefined == "<undefined>"
Null == "<null>"
\* No Attr object (where an operation found or left none).
Absent == "<absent>"
NoAttr == 0
\* The booleans true and false, as values an attribute can be given.
True == "<true>"
False == "<false>"

\* String(x), as the + operator applies it to a non-string operand.
ToStr(x) == IF x = Null THEN "null" ELSE IF x = Undefined THEN "undefined" ELSE x

\* x || y for x a string, null or undefined.
OrElse(x, y) == IF x = Null \/ x = Undefined \/ x = "" THEN y ELSE x

XML_NAMESPACE == "http://www.w3.org/XML/1998/namespace"
XMLNS_NAMESPACE == "http://www.w3.org/2000/xmlns/"

\* ------------------------------------------------------------------ names

\* The names the operations are called with.  For each: whether it is an XML
\* Name, whether it is an XML QName, where its colon is (prefix and local
\* part), and its lowercase form.
NameTable ==
    [n \in {"foo", "Foo", "p:Foo", "p:foo", "xmlns", "1x", "dir", "disabled",
             "XMLNS", "xml:Foo", "xmlns:Foo", "a:b:c"} |->
        CASE n = "xml:Foo" ->
                            [name |-> TRUE,  qname |-> TRUE,  colon |-> TRUE,
                             prefix |-> "xml", local |-> "Foo",
                             lower |-> "xml:foo", first5 |-> "xml:F"]
          [] n = "xmlns:Foo" ->
                            [name |-> TRUE,  qname |-> TRUE,  colon |-> TRUE,
                             prefix |-> "xmlns", local |-> "Foo",
                             lower |-> "xmlns:foo", first5 |-> "xmlns"]
          [] n = "a:b:c" -> [name |-> TRUE,  qname |-> FALSE, colon |-> TRUE,
                             prefix |-> "a", local |-> "b:c",
                             lower |-> "a:b:c", first5 |-> "a:b:c"]
          [] n = "XMLNS" -> [name |-> TRUE,  qname |-> TRUE,  colon |-> FALSE,
                             prefix |-> "",  local |-> "XMLNS", lower |-> "xmlns",
                             first5 |-> "XMLNS"]
          [] n = "dir"   -> [name |-> TRUE,  qname |-> TRUE,  colon |-> FALSE,
                             prefix |-> "",  local |-> "dir", lower |-> "dir",
                             first5 |-> "dir"]
          [] n = "disabled" ->
                            [name |-> TRUE,  qname |-> TRUE,  colon |-> FALSE,
                             prefix |-> "",  local |-> "disabled",
                             lower |-> "disabled", first5 |-> "disab"]
          [] n = "foo"   -> [name |-> TRUE,  qname |-> TRUE,  colon |-> FALSE,
                             prefix |-> "",  local |-> "foo", lower |-> "foo",
                             first5 |-> "foo"]
          [] n = "Foo"   -> [name |-> TRUE,  qname |-> TRUE,  colon |-> FALSE,
                             prefix |-> "",  local |-> "Foo", lower |-> "foo",
                             first5 |-> "Foo"]
          [] n = "p:Foo" -> [name |-> TRUE,  qname |-> TRUE,  colon |-> TRUE,
                             prefix |-> "p", local |-> "Foo", lower |-> "p:foo",
                             first5 |-> "p:Foo"]
          [] n = "p:foo" -> [name |-> TRUE,  qname |-> TRUE,  colon |-> TRUE,
                             prefix |-> "p", local |-> "foo", lower |-> "p:foo",
                             first5 |-> "p:foo"]
          [] n = "xmlns" -> [name |-> TRUE,  qname |-> TRUE,  colon |-> FALSE,
                             prefix |-> "",  local |-> "xmlns", lower |-> "xmlns",
                             first5 |-> "xmlns"]
          [] n = "1x"    -> [name |-> FALSE, qname |-> FALSE, colon |-> FALSE,
                             prefix |-> "",  local |-> "1x",  lower |-> "1x",
                             first5 |-> "1x"]]

isValidName(n) == NameTable[n].name
isValidQName(n) == NameTable[n].qname
toLowerCase(n) == NameTable[n].lower
\* substring(qname, 0, 5)
First5(n) == NameTable[n].first5
\* S.indexOf(qname, ":") === -1
NoColon(n) == ~NameTable[n].colon
\* substring(qname, 0, pos) and substring(qname, pos+1)
PrefixOf(n) == NameTable[n].prefix
LocalOf(n) == NameTable[n].local

\* element._attrDecls: the element's type declares "foo" and "Foo", each with
\* an onchange hook, the enumerated attribute "dir" and the boolean attribute
\* "disabled"; nothing else is declared.
AttrDecls(n) ==
    IF n \in {"foo", "Foo"} THEN "HookedDeclaration"
    ELSE IF n = "dir" THEN "DirDeclaration"
    ELSE IF n = "disabled" THEN "DisabledDeclaration"
    ELSE Undefined

\* declaration && declaration.onchange
HasOnchange(decl) == decl = "HookedDeclaration"

\* --------------------------------------------------- the insertion-ordered map

MapHas(mp, k) == \E i \in 1..Len(mp) : mp[i].key = k

MapIndex(mp, k) == CHOOSE i \in 1..Len(mp) : mp[i].key = k

MapGet(mp, k) == mp[MapIndex(mp, k)].attr

\* mp[k] = a: a new key goes to the end, an existing key keeps its place.
MapPut(mp, k, a) ==
    IF MapHas(mp, k)
    THEN [mp EXCEPT ![MapIndex(mp, k)].attr = a]
    ELSE Append(mp, [key |-> k, attr |-> a])

\* delete mp[k]
MapDelete(mp, k) ==
    IF MapHas(mp, k)
    THEN LET i == MapIndex(mp, k)
         IN  SubSeq(mp, 1, i - 1) \o SubSeq(mp, i + 1, Len(mp))
    ELSE mp

\* O.keys(mp)
MapKeys(mp) == [i \in 1..Len(mp) |-> mp[i].key]

\* ------------------------------------------------------------ the machine

\* The collection and the outcome of the operation in progress.
Cur ==
    [attrs |-> attrs, byQName |-> byQName, byNSAndLName |-> byNSAndLName,
     keys |-> keys, length |-> length,
     calls |-> <<>>, threw |-> "none", ret |-> NoAttr, target |-> NoAttr,
     oom |-> FALSE, seen |-> <<>>]

Throw(m, e) == [m EXCEPT !.threw = e]

Single(a) == [isArray |-> FALSE, attr |-> a, elems |-> <<>>, idlvalue |-> Undefined]
Array(s, idl) == [isArray |-> TRUE, attr |-> NoAttr, elems |-> s, idlvalue |-> idl]

\* attr.name
AttrName(a) ==
    IF a.prefix # Null /\ a.prefix # ""
    THEN a.prefix \o ":" \o a.localName
    ELSE a.localName

\* new impl.Attr(elt, decl, lname, prefix, namespace): the object gets the
\* least free identity; m.ret is the new object.
NewAttrObject(m, decl, lname, prefix, namespace) ==
    LET free == AttrIds \ DOMAIN m.attrs IN
    IF free = {} THEN [m EXCEPT !.oom = TRUE]
    ELSE LET id == CHOOSE i \in free : \A j \in free : i <= j
             a == [localName |-> lname,
                   prefix |-> OrElse(prefix, Null),
                   namespaceURI |-> OrElse(namespace, Null),
                   declaration |-> decl,
                   data |-> Undefined,
                   idlvalue |-> Undefined]
         IN  [m EXCEPT !.attrs = (id :> a) @@ m.attrs, !.ret = id]

\* declaration.onchange(element, localName, oldValue, newValue)
OnchangeCall(lname, old, new) ==
    [fn |-> "onchange", element |-> "this.element", localName |-> lname,
     old |-> old, new |-> new]

\* ownerDocument.mutateAttr(attr, oldval) and ownerDocument.mutateRemoveAttr(attr):
\* attr is recorded by its localName and its value at the call.
MutateCall(fn, a, old) ==
    [fn |-> fn, element |-> "this.element", localName |-> a.localName,
     old |-> old, new |-> a.data]

\* What a hook or the document finds when it is called about the Attr id: the
\* Attr's value and whether byQName and byNSAndLName hold the Attr.
Snapshot(m, id) ==
    [data |-> m.attrs[id].data,
     inQName |-> \E q \in DOMAIN m.byQName :
                    IF m.byQName[q].isArray
                    THEN \E i \in 1..Len(m.byQName[q].elems) :
                            m.byQName[q].elems[i] = id
                    ELSE m.byQName[q].attr = id,
     inNSAndLName |-> \E i \in 1..Len(m.byNSAndLName) :
                         m.byNSAndLName[i].attr = id]

\* The value setter without its test for an unchanged value.
SetValueAlways(m, id, v) ==
    LET oldval == m.attrs[id].data
        m1 == [m EXCEPT !.attrs[id].data = v]
        a == m1.attrs[id]
        m2 == IF HasOnchange(a.declaration)
              THEN [m1 EXCEPT !.calls =
                       Append(@, OnchangeCall(a.localName, oldval, v))]
              ELSE m1
    IN  IF rooted
        THEN [m2 EXCEPT !.calls = Append(@, MutateCall("mutateAttr", a, oldval))]
        ELSE m2

\* The value setter sending its mutation event whether the element is rooted
\* or not.
SetValueAndNotify(m, id, v) ==
    IF m.attrs[id].data = v THEN m
    ELSE LET oldval == m.attrs[id].data
             m1 == [m EXCEPT !.attrs[id].data = v]
             a == m1.attrs[id]
             m2 == IF HasOnchange(a.declaration)
                   THEN [m1 EXCEPT !.calls =
                            Append(@, OnchangeCall(a.localName, oldval, v))]
                   ELSE m1
         IN  [m2 EXCEPT !.calls = Append(@, MutateCall("mutateAttr", a, oldval))]

\* The Attr.value setter.
SetValue(m, id, v) ==
    IF m.attrs[id].data = v THEN m
    ELSE LET oldval == m.attrs[id].data
             m1 == [m EXCEPT !.attrs[id].data = v]
             a == m1.attrs[id]
             m2 == IF HasOnchange(a.declaration)
                   THEN [m1 EXCEPT !.calls =
                            Append(@, OnchangeCall(a.localName, oldval, v)),
                                   !.seen = Append(@, Snapshot(m1, id))]
                   ELSE m1
         IN  IF rooted
             THEN [m2 EXCEPT !.calls = Append(@, MutateCall("mutateAttr", a, oldval)),
                             !.seen = Append(@, Snapshot(m1, id))]
             ELSE m2

\* Attributes._newAttr
NewAttr(m, qname) ==
    LET m1 == NewAttrObject(m, AttrDecls(qname), qname, Undefined, Undefined) IN
    IF m1.oom THEN m1
    ELSE LET attr == m1.ret
             mp == MapPut(m1.byNSAndLName, "|" \o qname, attr)
         IN  [m1 EXCEPT !.byQName = (qname :> Single(attr)) @@ @,
                        !.byNSAndLName = mp,
                        !.keys = MapKeys(mp),
                        !.length = Len(MapKeys(mp))]

\* Attributes._addQName
AddQName(m, attr) ==
    LET qname == AttrName(m.attrs[attr]) IN
    IF qname \notin DOMAIN m.byQName
    THEN [m EXCEPT !.byQName = (qname :> Single(attr)) @@ @]
    ELSE LET existing == m.byQName[qname] IN
         IF existing.isArray
         THEN [m EXCEPT !.byQName[qname].elems = Append(@, attr)]
         ELSE [m EXCEPT !.byQName[qname] =
                            Array(<<existing.attr, attr>>, Undefined)]

\* delete this.byQName[qname]
DeleteQName(bq, qname) == [k \in DOMAIN bq \ {qname} |-> bq[k]]

\* A.indexOf(target, attr), counting from 1; 0 for -1.
IndexOf(s, x) ==
    IF \E i \in 1..Len(s) : s[i] = x
    THEN CHOOSE i \in 1..Len(s) : s[i] = x /\ \A j \in 1..(i - 1) : s[j] # x
    ELSE 0

\* splice(target, idx, 1)
RemoveAt(s, i) == SubSeq(s, 1, i - 1) \o SubSeq(s, i + 1, Len(s))

\* _removeQName that splices an array of two as it does a longer one.
RemoveQNameSplice(m, attr) ==
    LET qname == AttrName(m.attrs[attr]) IN
    IF qname \in DOMAIN m.byQName /\ m.byQName[qname].isArray
    THEN LET target == m.byQName[qname].elems
             idx == IndexOf(target, attr)
         IN  IF idx = 0 THEN Throw(m, "AssertionError")
             ELSE [m EXCEPT !.byQName[qname].elems = RemoveAt(target, idx)]
    ELSE IF qname \in DOMAIN m.byQName /\ m.byQName[qname].attr = attr
         THEN [m EXCEPT !.byQName = DeleteQName(@, qname)]
         ELSE Throw(m, "AssertionError")

\* Attributes._removeQName
RemoveQName(m, attr) ==
    LET qname == AttrName(m.attrs[attr]) IN
    IF qname \in DOMAIN m.byQName /\ m.byQName[qname].isArray
    THEN LET target == m.byQName[qname].elems
             idx == IndexOf(target, attr)
         IN  IF idx = 0 THEN Throw(m, "AssertionError")
             ELSE IF Len(target) = 2
             THEN [m EXCEPT !.byQName[qname] = Single(target[3 - idx])]
             ELSE [m EXCEPT !.byQName[qname].elems = RemoveAt(target, idx)]
    ELSE IF qname \in DOMAIN m.byQName /\ m.byQName[qname].attr = attr
         THEN [m EXCEPT !.byQName = DeleteQName(@, qname)]
         ELSE Throw(m, "AssertionError")

\* setAttribute with the last Attr of an array taken instead of the first.
SetAttributeLastOfArray(m, qname0, value) ==
    IF ~isValidName(qname0) THEN Throw(m, "InvalidCharacterError")
    ELSE LET qname == IF isHTML THEN toLowerCase(qname0) ELSE qname0 IN
         IF First5(qname) = "xmlns" THEN Throw(m, "NamespaceError")
         ELSE LET m1 == IF qname \notin DOMAIN m.byQName
                        THEN NewAttr(m, qname)
                        ELSE LET e == m.byQName[qname]
                             IN  [m EXCEPT !.ret =
                                     IF e.isArray THEN e.elems[Len(e.elems)] ELSE e.attr]
              IN  IF m1.oom THEN m1
                  ELSE SetValue([m1 EXCEPT !.target = m1.ret], m1.ret, value)

\* setAttribute that looks for "xmlns" before it lowercases the name.
SetAttributeXmlnsAsWritten(m, qname0, value) ==
    IF ~isValidName(qname0) THEN Throw(m, "InvalidCharacterError")
    ELSE LET qname == IF isHTML THEN toLowerCase(qname0) ELSE qname0 IN
         IF First5(qname0) = "xmlns" THEN Throw(m, "NamespaceError")
         ELSE LET m1 == IF qname \notin DOMAIN m.byQName
                        THEN NewAttr(m, qname)
                        ELSE LET e == m.byQName[qname]
                             IN  [m EXCEPT !.ret =
                                     IF e.isArray THEN e.elems[1] ELSE e.attr]
              IN  IF m1.oom THEN m1
                  ELSE SetValue([m1 EXCEPT !.target = m1.ret], m1.ret, value)

\* Attributes.setAttribute
SetAttribute(m, qname0, value) ==
    IF ~isValidName(qname0) THEN Throw(m, "InvalidCharacterError")
    ELSE LET qname == IF isHTML THEN toLowerCase(qname0) ELSE qname0 IN
         IF First5(qname) = "xmlns" THEN Throw(m, "NamespaceError")
         ELSE LET m1 == IF qname \notin DOMAIN m.byQName
                        THEN NewAttr(m, qname)
                        ELSE LET e == m.byQName[qname]
                             IN  [m EXCEPT !.ret =
                                     IF e.isArray THEN e.elems[1] ELSE e.attr]
              IN  IF m1.oom THEN m1
                  ELSE SetValue([m1 EXCEPT !.target = m1.ret], m1.ret, value)

\* The namespace checks without the last: the XMLNS namespace with a name that
\* is not xmlns.
IsNamespaceErrorNamesOnly(ns, qname, prefix) ==
    \/ prefix # Null /\ ns = Null
    \/ prefix = "xml" /\ ns # XML_NAMESPACE
    \/ (qname = "xmlns" \/ prefix = "xmlns") /\ ns # XMLNS_NAMESPACE

\* The namespace checks of Attributes.setAttributeNS (ns is already null for "").
IsNamespaceError(ns, qname, prefix) ==
    \/ prefix # Null /\ ns = Null
    \/ prefix = "xml" /\ ns # XML_NAMESPACE
    \/ (qname = "xmlns" \/ prefix = "xmlns") /\ ns # XMLNS_NAMESPACE
    \/ ns = XMLNS_NAMESPACE /\ ~(qname = "xmlns" \/ prefix = "xmlns")

\* setAttributeNS that binds the new qname without unbinding the old one.
SetAttributeNSKeepsOldQName(m, ns0, qname, value) ==
    IF ~isValidName(qname) THEN Throw(m, "InvalidCharacterError")
    ELSE IF ~isValidQName(qname) THEN Throw(m, "NamespaceError")
    ELSE
    LET prefix == IF NoColon(qname) THEN Null ELSE PrefixOf(qname)
        lname == IF NoColon(qname) THEN qname ELSE LocalOf(qname)
        key == ToStr(ns0) \o "|" \o lname
        ns == IF ns0 = "" THEN Null ELSE ns0
    IN
    IF IsNamespaceError(ns, qname, prefix) THEN Throw(m, "NamespaceError")
    ELSE
    IF ~MapHas(m.byNSAndLName, key)
    THEN LET decl == IF prefix # Null /\ prefix # "" THEN Null ELSE AttrDecls(lname)
             m1 == NewAttrObject(m, decl, lname, prefix, ns)
         IN  IF m1.oom THEN m1
             ELSE LET attr == m1.ret
                      mp == MapPut(m1.byNSAndLName, key, attr)
                      m2 == [m1 EXCEPT !.byNSAndLName = mp,
                                       !.keys = MapKeys(mp),
                                       !.length = Len(MapKeys(mp)),
                                       !.target = attr]
                      m3 == AddQName(m2, attr)
                  IN  SetValue(m3, attr, value)
    ELSE LET attr == MapGet(m.byNSAndLName, key)
             m0 == [m EXCEPT !.target = attr]
         IN
         IF m.attrs[attr].prefix # prefix
         THEN LET m1 == m0 IN
              IF m1.threw # "none" THEN m1
              ELSE LET m2 == AddQName([m1 EXCEPT !.attrs[attr].prefix = prefix], attr)
                   IN  SetValue(m2, attr, value)
         ELSE SetValue(m0, attr, value)

\* Attributes.setAttributeNS
SetAttributeNS(m, ns0, qname, value) ==
    IF ~isValidName(qname) THEN Throw(m, "InvalidCharacterError")
    ELSE IF ~isValidQName(qname) THEN Throw(m, "NamespaceError")
    ELSE
    LET prefix == IF NoColon(qname) THEN Null ELSE PrefixOf(qname)
        lname == IF NoColon(qname) THEN qname ELSE LocalOf(qname)
        key == ToStr(ns0) \o "|" \o lname
        ns == IF ns0 = "" THEN Null ELSE ns0
    IN
    IF IsNamespaceError(ns, qname, prefix) THEN Throw(m, "NamespaceError")
    ELSE
    IF ~MapHas(m.byNSAndLName, key)
    THEN LET decl == IF prefix # Null /\ prefix # "" THEN Null ELSE AttrDecls(lname)
             m1 == NewAttrObject(m, decl, lname, prefix, ns)
         IN  IF m1.oom THEN m1
             ELSE LET attr == m1.ret
                      mp == MapPut(m1.byNSAndLName, key, attr)
                      m2 == [m1 EXCEPT !.byNSAndLName = mp,
                                       !.keys = MapKeys(mp),
                                       !.length = Len(MapKeys(mp)),
                                       !.target = attr]
                      m3 == AddQName(m2, attr)
                  IN  SetValue(m3, attr, value)
    ELSE LET attr == MapGet(m.byNSAndLName, key)
             m0 == [m EXCEPT !.target = attr]
         IN
         IF m.attrs[attr].prefix # prefix
         THEN LET m1 == RemoveQName(m0, attr) IN
              IF m1.threw # "none" THEN m1
              ELSE LET m2 == AddQName([m1 EXCEPT !.attrs[attr].prefix = prefix], attr)
                   IN  SetValue(m2, attr, value)
         ELSE SetValue(m0, attr, value)

\* The end of removeAttribute and removeAttributeNS: the onchange hook, called
\* with this.localName and this.idlvalue where this is the Attributes object
\* (it has neither property), and the mutation event.
RemovalCalls(m, attr) ==
    LET a == m.attrs[attr]
        m1 == IF HasOnchange(a.declaration)
              THEN [m EXCEPT !.calls = Append(@, OnchangeCall(Undefined, Undefined, Null)),
                             !.seen = Append(@, Snapshot(m, attr))]
              ELSE m
    IN  IF rooted
        THEN [m1 EXCEPT !.calls = Append(@, MutateCall("mutateRemoveAttr", a, Undefined)),
                        !.seen = Append(@, Snapshot(m, attr))]
        ELSE m1

\* removeAttribute that leaves the qname mapping of a single match in place.
RemoveAttributeKeepsQName(m, qname0) ==
    LET qname == IF isHTML THEN toLowerCase(qname0) ELSE qname0 IN
    IF qname \notin DOMAIN m.byQName THEN m
    ELSE
    LET e == m.byQName[qname]
        attr == IF e.isArray THEN e.elems[1] ELSE e.attr
        bq == IF e.isArray
              THEN IF Len(e.elems) > 2
                   THEN [m.byQName EXCEPT ![qname].elems = Tail(@)]
                   ELSE [m.byQName EXCEPT ![qname] = Single(e.elems[2])]
              ELSE m.byQName
        a == m.attrs[attr]
        key == OrElse(a.namespaceURI, "") \o "|" \o a.localName
        mp == MapDelete(m.byNSAndLName, key)
        m1 == [m EXCEPT !.byQName = bq,
                        !.byNSAndLName = mp,
                        !.keys = MapKeys(mp),
                        !.length = Len(MapKeys(mp)),
                        !.target = attr]
    IN  RemovalCalls(m1, attr)

\* Attributes.removeAttribute
RemoveAttribute(m, qname0) ==
    LET qname == IF isHTML THEN toLowerCase(qname0) ELSE qname0 IN
    IF qname \notin DOMAIN m.byQName THEN m
    ELSE
    LET e == m.byQName[qname]
        attr == IF e.isArray THEN e.elems[1] ELSE e.attr
        bq == IF e.isArray
              THEN IF Len(e.elems) > 2
                   THEN [m.byQName EXCEPT ![qname].elems = Tail(@)]
                   ELSE [m.byQName EXCEPT ![qname] = Single(e.elems[2])]
              ELSE DeleteQName(m.byQName, qname)
        a == m.attrs[attr]
        key == OrElse(a.namespaceURI, "") \o "|" \o a.localName
        mp == MapDelete(m.byNSAndLName, key)
        m1 == [m EXCEPT !.byQName = bq,
                        !.byNSAndLName = mp,
                        !.keys = MapKeys(mp),
                        !.length = Len(MapKeys(mp)),
                        !.target = attr]
    IN  RemovalCalls(m1, attr)

\* Attributes.removeAttributeNS
RemoveAttributeNS(m, ns, lname) ==
    LET key == OrElse(ns, "") \o "|" \o lname IN
    IF ~MapHas(m.byNSAndLName, key) THEN m
    ELSE
    LET attr == MapGet(m.byNSAndLName, key)
        mp == MapDelete(m.byNSAndLName, key)
        m1 == [m EXCEPT !.byNSAndLName = mp,
                        !.keys = MapKeys(mp),
                        !.length = Len(MapKeys(mp)),
                        !.target = attr]
        m2 == RemoveQName(m1, attr)
    IN  IF m2.threw # "none" THEN m2 ELSE RemovalCalls(m2, attr)

\* Attributes.set, the raw setAttribute of the reflected idl attributes: it
\* assigns the idlvalue property of what byQName holds, an Attr or an array.
RawSet(m, qname, value) ==
    LET m1 == IF qname \notin DOMAIN m.byQName
              THEN NewAttr(m, qname)
              ELSE m
    IN  IF m1.oom THEN m1
        ELSE IF m1.byQName[qname].isArray
        THEN [m1 EXCEPT !.byQName[qname].idlvalue = value]
        ELSE [m1 EXCEPT !.attrs[m1.byQName[qname].attr].idlvalue = value,
                        !.target = m1.byQName[qname].attr]

\* ------------------------------------------------------------- the reads

\* Attributes.getAttribute
GetAttribute(m, qname0) ==
    LET qname == IF isHTML THEN toLowerCase(qname0) ELSE qname0 IN
    IF qname \notin DOMAIN m.byQName THEN Null
    ELSE LET e == m.byQName[qname]
         IN  m.attrs[IF e.isArray THEN e.elems[1] ELSE e.attr].data

\* Attributes.getAttributeNS
GetAttributeNS(m, ns, lname) ==
    LET key == ToStr(ns) \o "|" \o lname IN
    IF MapHas(m.byNSAndLName, key)
    THEN m.attrs[MapGet(m.byNSAndLName, key)].data
    ELSE Null

\* Attributes.hasAttribute
HasAttribute(m, qname0) ==
    LET qname == IF isHTML THEN toLowerCase(qname0) ELSE qname0 IN
    qname \in DOMAIN m.byQName

\* Attributes.hasAttributeNS
HasAttributeNS(m, ns, lname) == MapHas(m.byNSAndLName, ToStr(ns) \o "|" \o lname)

\* Attributes.item(index), index counted from 0; NoAttr for undefined.
Item(m, index) ==
    IF index + 1 \in 1..Len(m.keys) /\ MapHas(m.byNSAndLName, m.keys[index + 1])
    THEN MapGet(m.byNSAndLName, m.keys[index + 1])
    ELSE NoAttr

\* What byQName holds for qname, as a list: the Attr, or the array's elements.
Bucket(m, qname) ==
    IF qname \notin DOMAIN m.byQName THEN <<>>
    ELSE IF m.byQName[qname].isArray THEN m.byQName[qname].elems
    ELSE <<m.byQName[qname].attr>>

\* Attributes.get: the idlvalue property of what byQName holds, an Attr or
\* an array.
RawGet(m, qname) ==
    IF qname \notin DOMAIN m.byQName THEN ""
    ELSE LET e == m.byQName[qname]
         IN  IF e.isArray THEN e.idlvalue ELSE m.attrs[e.attr].idlvalue

\* ------------------------------------------------- reflected idl attributes

\* declaration.boolean
DeclBoolean(decl) == decl = "DisabledDeclaration"

\* if (declaration.legalValues)
HasLegalValues(decl) == decl = "DirDeclaration"

\* declaration.legalValues: lowercase legal value -> canonical value; no
\* legal values where there is no such property.
DeclLegalValues(decl) ==
    IF HasLegalValues(decl)
    THEN [v \in {"ltr", "rtl", "auto"} |-> v]
    ELSE <<>>

\* v.toLowerCase() for the strings an attribute is given here.
StringToLowerCase(v) ==
    CASE v = "LTR" -> "ltr"
      [] v = "Rtl" -> "rtl"
      [] OTHER -> v

\* The outcome of a reflected getter: the value returned, or what it threw.
Returned(v) == [threw |-> "none", value |-> v]
Thrown(e) == [threw |-> e, value |-> Undefined]

\* A contentToIDL that looks v up as it is written.
ContentToIDLCaseSensitive(decl, v) ==
    IF v \in {Null, Undefined, True, False} THEN Thrown("TypeError")
    ELSE LET legal == DeclLegalValues(decl)
         IN  IF v \in DOMAIN legal THEN Returned(OrElse(legal[v], ""))
             ELSE Returned("")

\* The contentToIDL that reflectAttribute makes for a declaration with
\* legalValues: legalValues[v.toLowerCase()] || "".  A v that is no string
\* (null, true, false) has no toLowerCase method.
ContentToIDL(decl, v) ==
    IF v \in {Null, Undefined, True, False} THEN Thrown("TypeError")
    ELSE LET legal == DeclLegalValues(decl)
             low == StringToLowerCase(v)
         IN  IF low \in DOMAIN legal THEN Returned(OrElse(legal[low], ""))
             ELSE Returned("")

\* Whether reflectAttribute left the declaration with a contentToIDL (neither
\* declaration has an idlToContent).
HasContentToIDL(decl) == HasLegalValues(decl)

\* element.getAttribute and element.setAttribute: they call the methods of
\* the element's Attributes object.
ElementGetAttribute(m, name) == GetAttribute(m, name)
ElementSetAttribute(m, name, value) == SetAttribute(m, name, value)

\* The getter reflectAttribute defines for name.
PropertyGet(m, name) ==
    LET decl == AttrDecls(name)
        v == ElementGetAttribute(m, name)
    IN  IF HasContentToIDL(decl) THEN ContentToIDL(decl, v)
        ELSE Returned(IF v = False THEN "" ELSE OrElse(v, ""))

\* The setter reflectAttribute defines for name.
PropertySet(m, name, v) == ElementSetAttribute(m, name, v)

\* --------------------------------------------------------- reflectAttribute

\* Three element classes, each inheriting from the one before; the prototype
\* of a class inherits from the prototype of its superclass.
Classes == {"Element", "HTMLElement", "HTMLInputElement"}
Superclass(c) ==
    CASE c = "HTMLInputElement" -> "HTMLElement"
      [] c = "HTMLElement" -> "Element"
      [] OTHER -> Null

\* A class and its superclasses.
RECURSIVE Ancestry(_)
Ancestry(c) == IF c = Null THEN {} ELSE {c} \cup Ancestry(Superclass(c))

\* A prototype without an _attrDecls of its own, and a new _attrDecls object
\* made by Object.create(proto): names are its own properties, proto the
\* class whose _attrDecls object it inherits from (Null for null).
NoAttrDecls == [own |-> FALSE, names |-> {}, proto |-> Null]
NewAttrDecls(proto) == [own |-> TRUE, names |-> {}, proto |-> proto]

\* p._attrDecls read through the prototype chain: the class whose own
\* _attrDecls object the read finds, Null if it finds none.
RECURSIVE InheritedAttrDecls(_, _)
InheritedAttrDecls(decls, c) ==
    IF c = Null THEN Null
    ELSE IF decls[c].own THEN c
    ELSE InheritedAttrDecls(decls, Superclass(c))

\* name in o, for o the _attrDecls object of class c: an own property of o or
\* of an object o inherits from.
RECURSIVE NameIn(_, _, _)
NameIn(decls, c, name) ==
    IF c = Null THEN FALSE
    ELSE name \in decls[c].names \/ NameIn(decls, decls[c].proto, name)

\* reflectAttribute(c, name, declaration): the _attrDecls objects after the
\* call and whether its assertion failed.
ReflectAttribute(decls, c, name) ==
    LET d1 == IF decls[c].own THEN decls
              ELSE [decls EXCEPT ![c] =
                       NewAttrDecls(InheritedAttrDecls(decls, Superclass(c)))]
    IN  IF NameIn(d1, c, name)
        THEN [decls |-> d1, threw |-> "AssertionError"]
        ELSE [decls |-> [d1 EXCEPT ![c].names = @ \cup {name}], threw |-> "none"]

\* ------------------------------------------------------------ the inputs

Values == {"x", "y"}
\* setAttribute(qname, value): valid names, a name that is no XML Name, xmlns
SetArgs == ({"foo", "Foo"} \X Values) \cup {<<"1x", "x">>, <<"xmlns", "x">>}
\* setAttributeNS(ns, qname, value): the last is a prefix without a namespace
SetNSArgs ==
    ({<<Null, "Foo">>, <<"", "foo">>, <<"nsA", "Foo">>, <<"nsA", "p:Foo">>} \X Values)
    \cup {<<<<Null, "p:Foo">>, "x">>}
\* removeAttribute(qname)
RemoveArgs == {"foo", "Foo", "p:Foo"}
\* removeAttributeNS(ns, lname)
RemoveNSArgs == {<<Null, "Foo">>, <<"", "Foo">>, <<"nsA", "Foo">>, <<"", "foo">>}

\* The calls of SpecRaw: Attributes.set(qname, value) and, beside it,
RawSetArgs == {"Foo"} \X Values
RawSpecSetArgs == {"foo", "Foo"} \X Values
RawSpecSetNSArgs == {<<"nsA", "Foo">>} \X Values
RawSpecRemoveArgs == {"Foo"}
RawSpecRemoveNSArgs == {<<"nsA", "Foo">>}

\* The calls of SpecReflect: the reflected properties dir and disabled are
\* assigned, and their content attributes set and removed.
DirValues == {"ltr", "LTR", "Rtl", "sideways"}
PropertySetArgs == ({"dir"} \X DirValues) \cup ({"disabled"} \X {True, False})
ReflectSetArgs == ({"dir"} \X DirValues) \cup {<<"disabled", "">>}
ReflectRemoveArgs == {"dir", "disabled"}
\* The attribute names reflectAttribute is called with.
ReflectedNames == {"dir", "disabled"}

\* Names setAttribute is tried with in every state: no XML Name, xmlns in
\* both cases, and a name it takes.
TrySetNames == {"1x", "xmlns", "XMLNS", "foo"}

\* Namespaces and names setAttributeNS is tried with in every state.
TrySetNSNamespaces == {Null, "", "nsA", XML_NAMESPACE, XMLNS_NAMESPACE}
TrySetNSNames == {"Foo", "p:Foo", "xml:Foo", "xmlns", "xmlns:Foo", "a:b:c", "1x"}

\* The names and namespaces the reads are asked about.
AskNames == {"foo", "Foo", "p:Foo"}
AskLNames == {"foo", "Foo"}
AskNamespaces == {Null, "", "nsA"}

\* ------------------------------------------------------------- the actions

\* The Attr objects the maps refer to: those of byNSAndLName in its order,
\* then those only byQName still refers to.  Objects no map refers to are
\* dropped, and the identities are renamed to the position in this order (an
\* identity says which object it is, nothing else).
InQName(m) ==
    UNION {IF m.byQName[q].isArray
           THEN {m.byQName[q].elems[i] : i \in 1..Len(m.byQName[q].elems)}
           ELSE {m.byQName[q].attr} : q \in DOMAIN m.byQName}

InNSAndLName(m) == {m.byNSAndLName[i].attr : i \in 1..Len(m.byNSAndLName)}

Rename(m) ==
    LET only == InQName(m) \ InNSAndLName(m)
    IN  [a \in InNSAndLName(m) \cup only |->
            IF a \in InNSAndLName(m)
            THEN CHOOSE i \in 1..Len(m.byNSAndLName) : m.byNSAndLName[i].attr = a
            ELSE Len(m.byNSAndLName) + Cardinality({b \in only : b <= a})]

Compact(m) ==
    LET r == Rename(m)
        back == [n \in {r[a] : a \in DOMAIN r} |-> CHOOSE a \in DOMAIN r : r[a] = n]
    IN  [m EXCEPT
            !.attrs = [n \in DOMAIN back |-> m.attrs[back[n]]],
            !.byNSAndLName = [i \in 1..Len(m.byNSAndLName) |->
                                 [key |-> m.byNSAndLName[i].key,
                                  attr |-> r[m.byNSAndLName[i].attr]]],
            !.byQName = [q \in DOMAIN m.byQName |->
                            IF m.byQName[q].isArray
                            THEN [m.byQName[q] EXCEPT
                                     !.elems = [i \in 1..Len(m.byQName[q].elems) |->
                                                   r[m.byQName[q].elems[i]]]]
                            ELSE [m.byQName[q] EXCEPT !.attr = r[@]]],
            !.target = IF m.target \in DOMAIN r THEN r[m.target] ELSE NoAttr]

\* What the last call was and what it met: the Attr it acted on (target, NoAttr
\* if none or if the call removed it), that Attr's localName, whether its
\* declaration has an onchange hook, and its value before the call (Absent if
\* the call created it).
Observe(m, op, ns, name, value) ==
    [op |-> op, ns |-> ns, name |-> name, value |-> value, threw |-> m.threw,
     acted |-> m.target # NoAttr, target |-> NoAttr,
     localName |-> IF m.target = NoAttr THEN Undefined
                   ELSE m.attrs[m.target].localName,
     hooked |-> m.target # NoAttr /\ HasOnchange(m.attrs[m.target].declaration),
     old |-> IF m.target \in DOMAIN attrs THEN attrs[m.target].data ELSE Absent]

Commit(m0, op, ns, name, value) ==
    /\ ~m0.oom
    /\ \E m \in {Compact(m0)} :
        /\ attrs' = m.attrs
        /\ byQName' = m.byQName
        /\ byNSAndLName' = m.byNSAndLName
        /\ keys' = m.keys
        /\ length' = m.length
        /\ calls' = m.calls
        /\ last' = [Observe(m0, op, ns, name, value) EXCEPT !.target = m.target]
    /\ UNCHANGED <<isHTML, rooted, prototypeAttrDecls>>

DoSetAttribute(args) ==
    \E a \in args :
        \E m \in {SetAttribute(Cur, a[1], a[2])} :
            Commit(m, "setAttribute", Undefined, a[1], a[2])

DoSetAttributeNS(args) ==
    \E a \in args :
        \E m \in {SetAttributeNS(Cur, a[1][1], a[1][2], a[2])} :
            Commit(m, "setAttributeNS", a[1][1], a[1][2], a[2])

DoRemoveAttribute(args) ==
    \E q \in args :
        \E m \in {RemoveAttribute(Cur, q)} :
            Commit(m, "removeAttribute", Undefined, q, Undefined)

DoRemoveAttributeNS(args) ==
    \E a \in args :
        \E m \in {RemoveAttributeNS(Cur, a[1], a[2])} :
            Commit(m, "removeAttributeNS", a[1], a[2], Undefined)

DoRawSet(args) ==
    \E a \in args :
        \E m \in {RawSet(Cur, a[1], a[2])} :
            Commit(m, "set", Undefined, a[1], a[2])

DoPropertySet(args) ==
    \E a \in args :
        \E m \in {PropertySet(Cur, a[1], a[2])} :
            Commit(m, "propertySet", Undefined, a[1], a[2])

DoReflectAttribute ==
    \E c \in Classes : \E name \in ReflectedNames :
        \E r \in {ReflectAttribute(prototypeAttrDecls, c, name)} :
            /\ prototypeAttrDecls' = r.decls
            /\ last' = [op |-> "reflectAttribute", ns |-> Undefined, name |-> name,
                        value |-> c, threw |-> r.threw, acted |-> r.threw = "none",
                        localName |-> Undefined, hooked |-> FALSE, old |-> Absent,
                        target |-> NoAttr]
            /\ UNCHANGED <<attrs, byQName, byNSAndLName, keys, length, isHTML,
                           rooted, calls>>

Init ==
    /\ attrs = <<>>
    /\ byQName = <<>>
    /\ byNSAndLName = <<>>
    /\ keys = <<>>
    /\ length = 0
    /\ isHTML \in BOOLEAN
    /\ rooted \in BOOLEAN
    /\ calls = <<>>
    /\ prototypeAttrDecls = [c \in Classes |-> NoAttrDecls]
    /\ last = [op |-> "new", ns |-> Undefined, name |-> Undefined,
               value |-> Undefined, threw |-> "none", acted |-> FALSE,
               localName |-> Undefined, hooked |-> FALSE, old |-> Absent,
               target |-> NoAttr]

\* The eight attribute methods' mutators, called in any order.
Next ==
    \/ DoSetAttribute(SetArgs)
    \/ DoSetAttributeNS(SetNSArgs)
    \/ DoRemoveAttribute(RemoveArgs)
    \/ DoRemoveAttributeNS(RemoveNSArgs)

Spec == Init /\ [][Next]_vars

\* The same with the raw set of the reflected idl attributes, on fewer names.
NextRaw ==
    \/ DoSetAttribute(RawSpecSetArgs)
    \/ DoSetAttributeNS(RawSpecSetNSArgs)
    \/ DoRemoveAttribute(RawSpecRemoveArgs)
    \/ DoRemoveAttributeNS(RawSpecRemoveNSArgs)
    \/ DoRawSet(RawSetArgs)

SpecRaw == Init /\ [][NextRaw]_vars

\* An element with the reflected properties dir and disabled: the properties
\* are assigned and the content attributes set and removed, in any order.
NextReflect ==
    \/ DoPropertySet(PropertySetArgs)
    \/ DoSetAttribute(ReflectSetArgs)
    \/ DoRemoveAttribute(ReflectRemoveArgs)

SpecReflect == Init /\ [][NextReflect]_vars

\* The element classes declare their reflected attributes, in any order.
NextDeclare == DoReflectAttribute

SpecDeclare == Init /\ [][NextDeclare]_vars

\* ------------------------------------------------------------- the claims

\* How many calls of fn the last operation made.
CallCount(cs, fn) == Cardinality({i \in 1..Len(cs) : cs[i].fn = fn})

\* The places of byQName that hold the Attr a: <<qname, index>>.
QNamePlaces(m, a) ==
    {p \in UNION {{<<q, i>> : i \in 1..Len(Bucket(m, q))} : q \in DOMAIN m.byQName} :
        Bucket(m, p[1])[p[2]] = a}

\* The entries of byNSAndLName that hold the Attr a.
NSPlaces(m, a) == {i \in 1..Len(m.byNSAndLName) : m.byNSAndLName[i].attr = a}

\* The Attr objects that item() reaches through keys.
InKeys(m) == {Item(m, i) : i \in 0..(Len(m.keys) - 1)} \ {NoAttr}

\* C1: keys, byNSAndLName and byQName hold the same set of nodes: every node is
\* in exactly one byNSAndLName entry and in exactly one byQName bucket, the
\* bucket of its current qualified name, and none is in one structure only.
C1_StructuresAgree ==
    /\ InKeys(Cur) = InNSAndLName(Cur)
    /\ InNSAndLName(Cur) = InQName(Cur)
    /\ \A a \in DOMAIN attrs :
        /\ Cardinality(NSPlaces(Cur, a)) = 1
        /\ Cardinality(QNamePlaces(Cur, a)) = 1
        /\ \A p \in QNamePlaces(Cur, a) : p[1] = AttrName(attrs[a])

\* C2: no two nodes of the collection have the same (namespace, localName),
\* the empty and the null namespace being the same (the Attr constructor
\* stores both as null).
C2_UniqueNSAndLName ==
    \A a, b \in DOMAIN attrs :
        a # b => ~(/\ attrs[a].namespaceURI = attrs[b].namespaceURI
                   /\ attrs[a].localName = attrs[b].localName)

\* C3: right after a setAttribute(q, v) that returned, getAttribute(q) is v.
C3_SetThenGet ==
    (last.op = "setAttribute" /\ last.threw = "none")
        => GetAttribute(Cur, last.name) = last.value

\* C3 happens: setAttribute("Foo", v) changed the value of an existing node
\* that shares its qualified name with another node, and getAttribute gives v.
C3_Witness ==
    /\ last.op = "setAttribute" /\ last.threw = "none" /\ last.name = "Foo"
    /\ last.old \notin {Absent, last.value}
    /\ Len(Bucket(Cur, IF isHTML THEN "foo" ELSE "Foo")) >= (IF isHTML THEN 1 ELSE 2)
    /\ GetAttribute(Cur, last.name) = last.value

\* Whether an Attr other than the last call's target has the qualified name q.
OtherHasQName(q) ==
    \E a \in DOMAIN attrs : a # last.target /\ AttrName(attrs[a]) = q

\* C4: right after a setAttributeNS(ns, q, v) that returned,
\* getAttributeNS(ns, localName of q) is v, and getAttribute(q) is v whenever
\* no other node has the qualified name q.  (Stated for the calls where
\* getAttribute looks up q itself: on an HTML element it looks up q in lower
\* case, and a q with an uppercase letter is not found for that reason alone.)
C4_SetNSThenGet ==
    (last.op = "setAttributeNS" /\ last.threw = "none")
        => /\ GetAttributeNS(Cur, last.ns, LocalOf(last.name)) = last.value
           /\ (~OtherHasQName(last.name) /\ (isHTML => toLowerCase(last.name) = last.name))
                  => GetAttribute(Cur, last.name) = last.value

\* The qualified name setAttribute, getAttribute, hasAttribute and
\* removeAttribute look up when called with q.
Normalized(q) == IF isHTML THEN toLowerCase(q) ELSE q

\* The collection of m: the two maps, keys, length and every node.
Collection(m) == <<m.attrs, m.byQName, m.byNSAndLName, m.keys, m.length>>

\* C5 as claimed: setAttribute(q, v) then removeAttribute(q) leaves
\* hasAttribute(q) false and getAttribute(q) null.
C5_SetThenRemove_AsClaimed ==
    (last.op = "setAttribute" /\ last.threw = "none")
        => LET m == RemoveAttribute(Cur, last.name)
           IN  ~HasAttribute(m, last.name) /\ GetAttribute(m, last.name) = Null

\* C5 amended: it does when no other node has the qualified name q (as
\* setAttribute normalizes it); removeAttribute removes one node only.
C5_SetThenRemove ==
    (last.op = "setAttribute" /\ last.threw = "none"
        /\ ~OtherHasQName(Normalized(last.name)))
        => LET m == RemoveAttribute(Cur, last.name)
           IN  ~HasAttribute(m, last.name) /\ GetAttribute(m, last.name) = Null

\* C5 happens: setAttribute set the only node named q, which hasAttribute
\* sees, and removeAttribute(q) leaves none.
C5_Witness ==
    /\ last.op = "setAttribute" /\ last.threw = "none"
    /\ ~OtherHasQName(Normalized(last.name))
    /\ Cardinality(DOMAIN attrs) >= 2
    /\ HasAttribute(Cur, last.name) /\ GetAttribute(Cur, last.name) = last.value
    /\ ~HasAttribute(RemoveAttribute(Cur, last.name), last.name)

\* C6: when two or more nodes share the qualified name q, getAttribute(q) is
\* the value of the first of them, and removeAttribute(q) removes that first
\* node from byQName, byNSAndLName and keys and leaves every other node of
\* that name in all three and readable by getAttributeNS with its own
\* namespace and localName.
C6_RemoveFirstOfSeveral ==
    \A q \in AskNames :
        Len(Bucket(Cur, Normalized(q))) >= 2 =>
            LET b == Bucket(Cur, Normalized(q))
                m == RemoveAttribute(Cur, q)
            IN  /\ GetAttribute(Cur, q) = attrs[b[1]].data
                /\ b[1] \notin InQName(m) \cup InNSAndLName(m) \cup InKeys(m)
                /\ \A i \in 2..Len(b) :
                    /\ b[i] \in InQName(m) \cap InNSAndLName(m) \cap InKeys(m)
                    /\ GetAttributeNS(m, attrs[b[i]].namespaceURI,
                                      attrs[b[i]].localName) = attrs[b[i]].data

\* C7: a node without a namespace, however it was created, is found by
\* hasAttributeNS and getAttributeNS and removed by removeAttributeNS called
\* with the null namespace and called with the empty one.
C7_NullAndEmptyNamespace ==
    \A a \in InNSAndLName(Cur) :
        attrs[a].namespaceURI = Null =>
            \A ns \in {Null, ""} :
                /\ HasAttributeNS(Cur, ns, attrs[a].localName)
                /\ GetAttributeNS(Cur, ns, attrs[a].localName) = attrs[a].data
                /\ a \notin InNSAndLName(RemoveAttributeNS(Cur, ns, attrs[a].localName))

Mutators == {"setAttribute", "setAttributeNS", "set", "removeAttribute",
             "removeAttributeNS"}
Removers == {"removeAttribute", "removeAttributeNS"}

\* Whether the last call changed a value: it removed a node, created one, or
\* left its target with another value than it had.
LastChanged ==
    /\ last.acted
    /\ \/ last.op \in Removers
       \/ last.old = Absent
       \/ last.target # NoAttr /\ attrs[last.target].data # last.old

\* C8: a call that changes the value of a node with an onchange hook (creates
\* the node, updates it or removes it) calls the hook exactly once, whatever
\* the entry point, and a call that changes no value does not call it.
C8_HookOncePerChange ==
    (last.op \in Mutators /\ last.threw = "none")
        => CallCount(calls, "onchange") =
               (IF LastChanged /\ last.hooked THEN 1 ELSE 0)

\* C9 as claimed: of two setAttribute(q, v) in a row the first calls the hook
\* once and the notification once, the second calls nothing and changes nothing.
C9_SetTwice_AsClaimed ==
    (last.op = "setAttribute" /\ last.threw = "none")
        => LET m == SetAttribute(Cur, last.name, last.value)
           IN  /\ CallCount(calls, "onchange") = 1
               /\ CallCount(calls, "mutateAttr") = 1
               /\ m.calls = <<>>
               /\ Collection(m) = Collection(Cur)

\* C9 amended: the first call calls the hook once if it changed the value (or
\* created the node) and the node has an onchange hook, else not at all, and
\* the notification once if it changed the value and the element is rooted,
\* else not at all; the second calls nothing and changes nothing.
C9_SetTwice ==
    (last.op = "setAttribute" /\ last.threw = "none")
        => LET m == SetAttribute(Cur, last.name, last.value)
           IN  /\ CallCount(calls, "onchange") =
                      (IF last.old # last.value /\ last.hooked THEN 1 ELSE 0)
               /\ CallCount(calls, "mutateAttr") =
                      (IF last.old # last.value /\ rooted THEN 1 ELSE 0)
               /\ Len(calls) = CallCount(calls, "onchange") + CallCount(calls, "mutateAttr")
               /\ m.calls = <<>> /\ m.threw = "none"
               /\ Collection(m) = Collection(Cur)

\* C9 happens: on a rooted element a setAttribute changed the value of a node
\* with a hook, calling the hook and then the notification, and the same call
\* again calls nothing.
C9_Witness ==
    /\ last.op = "setAttribute" /\ last.threw = "none"
    /\ rooted /\ last.hooked /\ last.old \notin {Absent, last.value}
    /\ Len(calls) = 2 /\ calls[1].fn = "onchange" /\ calls[2].fn = "mutateAttr"
    /\ SetAttribute(Cur, last.name, last.value).calls = <<>>

\* C10: a removeAttribute or removeAttributeNS that removes a node with an
\* onchange hook calls the hook exactly once, with the element, the node's
\* localName, the value the node had, and null.
C10_RemovalHookArguments ==
    (last.op \in Removers /\ last.threw = "none" /\ last.acted /\ last.hooked)
        => /\ CallCount(calls, "onchange") = 1
           /\ \A i \in 1..Len(calls) :
                 calls[i].fn = "onchange"
                     => calls[i] = OnchangeCall(last.localName, last.old, Null)

\* C11: after the reflected property of a boolean declaration is assigned
\* false the content attribute is not there, and after it is assigned true
\* the content attribute is the empty string.
C11_BooleanProperty ==
    (last.op = "propertySet" /\ last.threw = "none"
        /\ DeclBoolean(AttrDecls(last.name)))
        => /\ last.value = False => ~HasAttribute(Cur, last.name)
           /\ last.value = True => GetAttribute(Cur, last.name) = ""

\* The canonical form of a value of dir in any letter case; "" if not legal.
CanonicalDir(v) ==
    CASE v \in {"ltr", "LTR", "Ltr"} -> "ltr"
      [] v \in {"rtl", "RTL", "Rtl"} -> "rtl"
      [] v \in {"auto", "AUTO", "Auto"} -> "auto"
      [] OTHER -> ""

C13_AbsentReadsEmpty ==
    \A name \in ReflectedNames :
        (HasContentToIDL(AttrDecls(name)) /\ ~HasAttribute(Cur, name))
            => PropertyGet(Cur, name) = Returned("")

\* The live nodes: those the collection holds, in both of its maps.
Live == InQName(Cur) \cap InNSAndLName(Cur)

\* C14: length is the number of live nodes; item(0) .. item(length - 1) are
\* pairwise distinct live nodes, in the order in which byNSAndLName got them;
\* item(i) is undefined from length on.
C14_LengthAndItems ==
    /\ length = Cardinality(Live)
    /\ \A i \in 0..(length - 1) : Item(Cur, i) \in Live
    /\ \A i, j \in 0..(length - 1) : i # j => Item(Cur, i) # Item(Cur, j)
    /\ \A i \in 0..(length - 1) : Item(Cur, i) = byNSAndLName[i + 1].attr
    /\ \A i \in length..(length + 1) : Item(Cur, i) = NoAttr

\* The error C15 says setAttribute(q, v) fails with.
SetAttributeError(q) ==
    IF q = "1x" THEN "InvalidCharacterError"
    ELSE IF q = "xmlns" \/ (isHTML /\ q = "XMLNS") THEN "NamespaceError"
    ELSE "none"

\* C15: setAttribute(q, v) throws InvalidCharacterError when q is no XML Name
\* and NamespaceError when q, lowercased on an HTML element, begins with
\* "xmlns"; a call that throws leaves the collection as it was and calls no
\* hook and no mutation event.
C15_SetAttributeErrors ==
    /\ \A q \in TrySetNames : \A v \in Values :
          LET m == SetAttribute(Cur, q, v)
          IN  /\ m.oom \/ m.threw = SetAttributeError(q)
              /\ m.threw # "none"
                    => Collection(m) = Collection(Cur) /\ m.calls = <<>>
    /\ last.op = "setAttribute"
          => /\ last.threw = SetAttributeError(last.name)
             /\ last.threw # "none" => calls = <<>> /\ ~last.acted

\* C15 happens: on a collection with two nodes setAttribute threw
\* NamespaceError for xmlns, and it would throw InvalidCharacterError for 1x
\* and, on an HTML element only, NamespaceError for XMLNS.
C15_Witness ==
    /\ last.op = "setAttribute" /\ last.threw = "NamespaceError"
    /\ length >= 2 /\ calls = <<>>
    /\ isHTML
    /\ SetAttribute(Cur, "1x", "x").threw = "InvalidCharacterError"
    /\ SetAttribute(Cur, "XMLNS", "x").threw = "NamespaceError"
    /\ Collection(SetAttribute(Cur, "XMLNS", "x")) = Collection(Cur)

\* The four cases C16 names, an empty-string ns taken as absent.
NamespaceIllFormed(ns0, q) ==
    LET ns == IF ns0 = "" THEN Null ELSE ns0
        hasPrefix == ~NoColon(q)
        isXmlns == q = "xmlns" \/ (hasPrefix /\ PrefixOf(q) = "xmlns")
    IN  \/ hasPrefix /\ ns = Null
        \/ hasPrefix /\ PrefixOf(q) = "xml" /\ ns # XML_NAMESPACE
        \/ isXmlns /\ ns # XMLNS_NAMESPACE
        \/ ns = XMLNS_NAMESPACE /\ ~isXmlns

\* C16 as claimed: setAttributeNS(ns, q, v) throws NamespaceError exactly in
\* those four cases, and then changes nothing and calls nothing.
C16_SetNSErrors_AsClaimed ==
    \A ns \in TrySetNSNamespaces : \A q \in TrySetNSNames :
        LET m == SetAttributeNS(Cur, ns, q, "x")
        IN  m.oom \/
            /\ m.threw = "NamespaceError" <=> NamespaceIllFormed(ns, q)
            /\ m.threw = "NamespaceError"
                  => Collection(m) = Collection(Cur) /\ m.calls = <<>>

\* C16 amended: for q an XML Name, exactly in those four cases or when q is
\* no qualified name (a q that is no XML Name throws InvalidCharacterError).
C16_SetNSErrors ==
    /\ \A ns \in TrySetNSNamespaces : \A q \in TrySetNSNames :
          LET m == SetAttributeNS(Cur, ns, q, "x")
          IN  m.oom \/
              /\ isValidName(q) =>
                    (m.threw = "NamespaceError"
                        <=> (~isValidQName(q) \/ NamespaceIllFormed(ns, q)))
              /\ ~isValidName(q) => m.threw = "InvalidCharacterError"
              /\ m.threw \in {"NamespaceError", "InvalidCharacterError"}
                    => Collection(m) = Collection(Cur) /\ m.calls = <<>>
    /\ (last.op = "setAttributeNS" /\ last.threw = "NamespaceError")
          => /\ ~isValidQName(last.name) \/ NamespaceIllFormed(last.ns, last.name)
             /\ calls = <<>> /\ ~last.acted

\* C16 happens: on a collection with two nodes setAttributeNS threw
\* NamespaceError for a prefix without a namespace, and it would for each of
\* the other cases while it takes a well-formed pair.
C16_Witness ==
    /\ last.op = "setAttributeNS" /\ last.threw = "NamespaceError"
    /\ last.ns = Null /\ last.name = "p:Foo" /\ length = 2
    /\ SetAttributeNS(Cur, "nsA", "xml:Foo", "x").threw = "NamespaceError"
    /\ SetAttributeNS(Cur, "nsA", "xmlns", "x").threw = "NamespaceError"
    /\ SetAttributeNS(Cur, XMLNS_NAMESPACE, "Foo", "x").threw = "NamespaceError"
    /\ SetAttributeNS(Cur, "", "p:Foo", "x").threw = "NamespaceError"
    /\ SetAttributeNS(Cur, "nsA", "a:b:c", "x").threw = "NamespaceError"
    /\ SetAttributeNS(Cur, XMLNS_NAMESPACE, "xmlns:Foo", "x").threw = "none"
    /\ SetAttributeNS(Cur, XML_NAMESPACE, "xml:Foo", "x").threw = "none"

\* C17: a node has one value for every way to it: after the raw
\* Attributes.set(q, v), getAttribute(q) returns v; after setAttribute(q, v),
\* the raw Attributes.get(q) returns v; and the raw get returns "" only where
\* no node has the qualified name.
C17_OneStoredValue ==
    /\ (last.op = "set" /\ last.threw = "none" /\ Normalized(last.name) = last.name)
          => GetAttribute(Cur, last.name) = last.value
    /\ (last.op = "setAttribute" /\ last.threw = "none")
          => RawGet(Cur, Normalized(last.name)) = last.value
    /\ \A q \in AskNames : RawGet(Cur, q) = "" => q \notin DOMAIN byQName

\* The classes of c's inheritance chain that declare name themselves.
Declaring(decls, c, name) == {a \in Ancestry(c) : name \in decls[a].names}

\* C18: whatever reflectAttribute calls were made, no name is declared twice
\* along a class's inheritance chain, and a call with a name that the class or
\* one of its superclasses declares fails its assertion and declares nothing.
C18_DeclaredOnce ==
    \A c \in Classes : \A name \in ReflectedNames :
        /\ Cardinality(Declaring(prototypeAttrDecls, c, name)) <= 1
        /\ Declaring(prototypeAttrDecls, c, name) # {}
              => LET r == ReflectAttribute(prototypeAttrDecls, c, name)
                 IN  /\ r.threw = "AssertionError"
                     /\ \A a \in Classes :
                           r.decls[a].names = prototypeAttrDecls[a].names

\* The prefix setAttributeNS takes from q, null if q has no colon.
NewPrefix(q) == IF NoColon(q) THEN Null ELSE PrefixOf(q)

\* The calls setAttributeNS(ns, q, v) that meet a node with that namespace and
\* localName and another prefix than q's.
PrefixChanges ==
    {a \in SetNSArgs :
        /\ isValidQName(a[1][2])
        /\ ~IsNamespaceError(IF a[1][1] = "" THEN Null ELSE a[1][1], a[1][2],
                             NewPrefix(a[1][2]))
        /\ HasAttributeNS(Cur, a[1][1], LocalOf(a[1][2]))
        /\ attrs[MapGet(byNSAndLName, ToStr(a[1][1]) \o "|" \o LocalOf(a[1][2]))].prefix
               # NewPrefix(a[1][2])}

\* What C19 says of such a call a, but for getAttribute of the new name: the
\* node is the same object at the same place with the same namespace and
\* localName, length and keys are as before, the node has left the bucket of
\* its old qualified name and is in the bucket of q, and its value is v.
PrefixChanged(a, m) ==
    LET key == ToStr(a[1][1]) \o "|" \o LocalOf(a[1][2])
        n == MapGet(byNSAndLName, key)
    IN  /\ m.threw = "none" /\ m.target = n
        /\ MapHas(m.byNSAndLName, key) /\ MapGet(m.byNSAndLName, key) = n
        /\ MapIndex(m.byNSAndLName, key) = MapIndex(byNSAndLName, key)
        /\ m.length = length /\ m.keys = keys /\ Item(m, MapIndex(byNSAndLName, key) - 1) = n
        /\ m.attrs[n].namespaceURI = attrs[n].namespaceURI
        /\ m.attrs[n].localName = attrs[n].localName
        /\ m.attrs[n].prefix = NewPrefix(a[1][2])
        /\ AttrName(m.attrs[n]) = a[1][2]
        /\ IndexOf(Bucket(m, AttrName(attrs[n])), n) = 0
        /\ IndexOf(Bucket(m, a[1][2]), n) # 0
        /\ m.attrs[n].data = a[2]

\* C19 as claimed: so it is, and getAttribute(q) returns v whenever the node is
\* the only one with the qualified name q.
C19_PrefixChange_AsClaimed ==
    \A a \in PrefixChanges :
        LET m == SetAttributeNS(Cur, a[1][1], a[1][2], a[2])
        IN  /\ PrefixChanged(a, m)
            /\ Len(Bucket(m, a[1][2])) = 1 => GetAttribute(m, a[1][2]) = a[2]

\* C19 amended: getAttribute(q) returns v whenever the node is the only one
\* with the qualified name q and q is the name getAttribute looks up (on an
\* HTML element it looks up q in lower case).
C19_PrefixChange ==
    \A a \in PrefixChanges :
        LET m == SetAttributeNS(Cur, a[1][1], a[1][2], a[2])
        IN  /\ PrefixChanged(a, m)
            /\ (Len(Bucket(m, a[1][2])) = 1 /\ Normalized(a[1][2]) = a[1][2])
                  => GetAttribute(m, a[1][2]) = a[2]

\* C19 happens: the node of namespace nsA and localName Foo has no prefix and
\* shares the qualified name Foo with another node; setAttributeNS with p:Foo
\* and another value takes it out of that array and binds it to p:Foo, where
\* getAttribute finds the new value.
C19_Witness ==
    /\ ~isHTML
    /\ <<<<"nsA", "p:Foo">>, "y">> \in PrefixChanges
    /\ Len(Bucket(Cur, "Foo")) >= 2
    /\ attrs[MapGet(byNSAndLName, "nsA|Foo")].data = "x"
    /\ LET m == SetAttributeNS(Cur, "nsA", "p:Foo", "y")
       IN  /\ PrefixChanged(<<<<"nsA", "p:Foo">>, "y">>, m)
           /\ GetAttribute(m, "p:Foo") = "y"
           /\ Len(Bucket(m, "Foo")) = Len(Bucket(Cur, "Foo")) - 1

\* The sequence s without n.
Without(s, n) == SelectSeq(s, LAMBDA x : x # n)

\* The nodes with namespace ns (null for "") and localName l.
NodesOf(ns, l) ==
    {n \in DOMAIN attrs :
        /\ attrs[n].namespaceURI = (IF ns = "" THEN Null ELSE ns)
        /\ attrs[n].localName = l}

\* m is the collection without n: n is in neither map nor in keys, and the
\* other nodes are where they were, in the same order, with the same values.
RemovedOnly(m, n) ==
    /\ m.byNSAndLName = SelectSeq(byNSAndLName, LAMBDA e : e.attr # n)
    /\ m.keys = MapKeys(m.byNSAndLName) /\ m.length = Len(m.keys)
    /\ n \notin InQName(m) \cup InNSAndLName(m) \cup InKeys(m)
    /\ \A q \in DOMAIN byQName : Bucket(m, q) = Without(Bucket(Cur, q), n)
    /\ \A q \in DOMAIN m.byQName : q \in DOMAIN byQName
    /\ \A o \in DOMAIN attrs \ {n} : m.attrs[o] = attrs[o]

\* C20: removeAttributeNS(ns, l) removes the node with that namespace and
\* localName, and nothing else, from byNSAndLName, keys and its byQName
\* bucket; where there is no such node it changes nothing and calls nothing.
C20_RemoveNSExactly ==
    \A a \in RemoveNSArgs :
        LET m == RemoveAttributeNS(Cur, a[1], a[2])
        IN  /\ m.threw = "none"
            /\ NodesOf(a[1], a[2]) = {}
                  => Collection(m) = Collection(Cur) /\ m.calls = <<>>
            /\ \A n \in NodesOf(a[1], a[2]) : RemovedOnly(m, n)

\* C21: byQName never holds an array for a qualified name without a prefix:
\* such a name is the name of at most one node.
C21_NoArrayWithoutPrefix ==
    \A q \in DOMAIN byQName : NoColon(q) => Len(Bucket(Cur, q)) <= 1

SetOutcomes ==
    {SetAttribute(Cur, a[1], a[2]) : a \in SetArgs}
        \cup {SetAttributeNS(Cur, a[1][1], a[1][2], a[2]) : a \in SetNSArgs}
RemoveOutcomes ==
    {RemoveAttribute(Cur, q) : q \in RemoveArgs}
        \cup {RemoveAttributeNS(Cur, a[1], a[2]) : a \in RemoveNSArgs}

\* m changed the value of a node with an onchange hook.
ChangedHooked(m) ==
    /\ ~m.oom /\ m.threw = "none" /\ m.calls # <<>> /\ m.target # NoAttr
    /\ HasOnchange(m.attrs[m.target].declaration)

\* The onchange hook is called first and the document second.
HookThenDocument(m, fn) ==
    /\ Len(m.calls) = 2 /\ Len(m.seen) = 2
    /\ m.calls[1].fn = "onchange" /\ m.calls[2].fn = fn

\* C23: on a rooted element, a change of the value of a node with an onchange
\* hook calls the hook and then the document, and at both calls the collection
\* is in its new state: the new value is stored, or the node is in neither map.
C23_HookBeforeDocument ==
    rooted =>
        /\ \A m \in SetOutcomes : ChangedHooked(m) =>
              /\ HookThenDocument(m, "mutateAttr")
              /\ \A i \in 1..2 : m.seen[i].data = m.calls[1].new
        /\ \A m \in RemoveOutcomes : ChangedHooked(m) =>
              /\ HookThenDocument(m, "mutateRemoveAttr")
              /\ \A i \in 1..2 : ~m.seen[i].inQName /\ ~m.seen[i].inNSAndLName

\* C24: what byQName holds for a qualified name is one Attr or an array of
\* two or more Attrs, no two of them the same.
C24_ArraysOfTwoOrMore ==
    \A q \in DOMAIN byQName :
        byQName[q].isArray =>
            /\ Len(byQName[q].elems) >= 2
            /\ \A i, j \in 1..Len(byQName[q].elems) :
                  i # j => byQName[q].elems[i] # byQName[q].elems[j]

\* C24 happens: removeAttributeNS took a node out of the array of the name
\* Foo, and that name is left with one Attr while two nodes remain.
C24_Witness ==
    /\ last.op = "removeAttributeNS" /\ last.threw = "none" /\ last.acted
    /\ last.ns = "nsA" /\ last.localName = "Foo"
    /\ "Foo" \in DOMAIN byQName /\ ~byQName["Foo"].isArray
    /\ length = 2 /\ Cardinality(InQName(Cur)) = 2

\* Arguments of removeAttributeNS and setAttributeNS that reach _removeQName:
\* those of the runs, and the namespace whose text is "null", a namespace
\* like any other for the caller.
RemoveQNameByRemoveNSArgs == RemoveNSArgs \cup {<<"null", "Foo">>}

RemoveQNameBySetNSArgs == SetNSArgs \cup {<<<<"null", "p:Foo">>, "x">>}

\* C25: the two assertions of _removeQName never fail in a reachable state:
\* no call made by the runs ended in a failed assertion, and no
\* removeAttributeNS and no setAttributeNS that changes a prefix, called now,
\* fails one: the entry of byQName for the node's qualified name is the node
\* or an array that holds it.
C25_RemoveQNameAssertions ==
    /\ last.threw # "AssertionError"
    /\ \A a \in RemoveQNameByRemoveNSArgs :
          RemoveAttributeNS(Cur, a[1], a[2]).threw # "AssertionError"
    /\ \A a \in RemoveQNameBySetNSArgs :
          SetAttributeNS(Cur, a[1][1], a[1][2], a[2]).threw # "AssertionError"

====
